---- MODULE Spec2Model ----
(***************************************************************************)
(* JALAK-HIJAU dashboard (src/app.py): the synthetic geodata generator,    *)
(* the cached data loaders, the AI-analysis wrapper and the per-session    *)
(* investigation state.                                                    *)
(*                                                                         *)
(* Numbers.  Every float of the generator is a fixed-point integer:        *)
(* fractions and degrees are counted in units of 1/Resolution, polygon     *)
(* radii and coordinates of a geometry in units of 1/Resolution^2, and a   *)
(* percentage field holds (percent * Resolution).                          *)
(***************************************************************************)
EXTENDS Integers, Sequences, FiniteSets, TLC

VARIABLES rng, np_int32, cache, epoch, ret, calls, ai, session, scoring, run

vars ==
    <<rng, np_int32, cache, epoch, ret, calls, ai, session, scoring, run>>

\* ------------------------------------------------------------------ bounds
\* fixed-point units per degree and per unit fraction
Resolution ==
    100

\* seeds 0..MaxSeed of the process-wide numpy generator
MaxSeed ==
    7

\* cache clears in one behaviour
MaxClears ==
    1

\* loader calls in one behaviour
MaxCalls ==
    2

\* messages chat_history may hold
MaxChatLen ==
    2

\* entries added to evidence_collected and next_actions in one investigation
MaxAdded ==
    1

\* ------------------------------------------------- numpy's global generator
\* np.random is one process-wide generator that no line of app.py seeds: its
\* state is hidden input.  Every call advances the state and derives its
\* value from the new state.
RngNext(r) ==
    (r * 73 + 41) % 997

\* RngNext is affine, r -> a * r + c; RngPow(n) is <<a, c>> of its n-fold
\* iterate, and RngAt(r, n) the generator state n calls after state r
RECURSIVE RngPow(_)
RngPow(n) ==
    IF n = 0
    THEN <<1, 0>>
    ELSE LET h == RngPow(n \div 2)
             sq == <<(h[1] * h[1]) % 997, (h[1] * h[2] + h[2]) % 997>>
         IN  IF n % 2 = 0
             THEN sq
             ELSE <<(sq[1] * 73) % 997, (sq[2] * 73 + 41) % 997>>

RngAt(r, n) ==
    LET p == RngPow(n) IN (p[1] * r + p[2]) % 997

\* np.random.uniform(low, high) restricted to the listed values of [low, high)
Uniform(cands, r) ==
    cands[(r % Len(cands)) + 1]

\* np.random.randint(low, high): an integer of [low, high)
RandInt(low, high, r) ==
    low + (r % (high - low))

\* smallest fixed-point value >= num/den, largest fixed-point value < num/den
AtLeast(num, den) ==
    (num * Resolution + den - 1) \div den

Below(num, den) ==
    (num * Resolution - 1) \div den

\* ------------------------------------------------------------ the generator
NumForests ==
    15

NumConcessions ==
    10

NumOverlapping ==
    3

regions ==
    <<[name |-> "Riau",
       center_lat |-> (5 * Resolution) \div 10,
       center_lon |-> (1014 * Resolution) \div 10],
      [name |-> "Kalimantan Selatan",
       center_lat |-> -((22 * Resolution) \div 10),
       center_lon |-> 115 * Resolution],
      [name |-> "Sumatera Utara",
       center_lat |-> 2 * Resolution,
       center_lon |-> 99 * Resolution]>>

\* uniform(-1, 1), uniform(-1.5, 1.5): the ends and the middle
LatDraws ==
    <<-Resolution, 0, Resolution - 1>>

LonDraws ==
    <<-((3 * Resolution) \div 2), 0, (3 * Resolution - 1) \div 2>>

\* uniform(0.1, 0.3)
ForestSizeDraws ==
    <<AtLeast(10, 100), Below(30, 100)>>

\* uniform(-0.05, 0.05)
NearDraws ==
    <<-((5 * Resolution) \div 100), 0, Below(5, 100)>>

\* uniform(0.15, 0.45): the ends and both sides of the severity threshold 0.3
OverlapPctDraws ==
    <<AtLeast(15, 100), (30 * Resolution) \div 100,
      ((30 * Resolution) \div 100) + 1, Below(45, 100)>>

\* uniform(0.05, 0.2)
SawitSizeDraws ==
    <<AtLeast(5, 100), Below(20, 100)>>

\* Point(lon, lat).buffer(size): a regular polygon inscribed in the circle of
\* radius size around (lon, lat)
Buffer(lon, lat, radius) ==
    [x |-> lon, y |-> lat, radius |-> radius]

\* lines 208-221: one protected forest; r is the generator state before it
ForestArea(region, i, r) ==
    LET r1 == RngNext(r)
        r2 == RngNext(r1)
        r3 == RngNext(r2)
        lat == region.center_lat + Uniform(LatDraws, r1)
        lon == region.center_lon + Uniform(LonDraws, r2)
        size == Uniform(ForestSizeDraws, r3)
    IN  [rec |-> [geometry |-> Buffer(lon * Resolution, lat * Resolution,
                                      size * Resolution),
                  name |-> <<"Hutan Lindung", region.name, i + 1>>,
                  region |-> region.name,
                  status |-> "Protected",
                  center_lat |-> lat,
                  center_lon |-> lon],
         rng |-> r3]

\* forest_areas[-3 + i]
BaseForest(forest_areas, i) ==
    forest_areas[Len(forest_areas) - NumOverlapping + i + 1]

\* mutant of RiskScore: the percentage taken for the fraction
RiskScoreOfPercent(overlap_pct, r) ==
    IF overlap_pct > 0
    THEN 85 + ((overlap_pct * 100 * 15) \div Resolution)
    ELSE RandInt(20, 40, r)

\* mutant of RiskScore: the product rounded up
RiskScoreRoundedUp(overlap_pct, r) ==
    IF overlap_pct > 0
    THEN 85 + ((overlap_pct * 15 + Resolution - 1) \div Resolution)
    ELSE RandInt(20, 40, r)

\* line 249: 85 + int(overlap_pct * 15) if overlap_pct > 0 else randint(20, 40)
RiskScore(overlap_pct, r) ==
    IF overlap_pct > 0
    THEN 85 + ((overlap_pct * 15) \div Resolution)
    ELSE RandInt(20, 40, r)

\* mutant of Severity: the threshold itself counted as CRITICAL
SeverityInclusive(overlap_pct) ==
    IF overlap_pct * 10 >= 3 * Resolution THEN "CRITICAL" ELSE "HIGH"

\* line 263: 'CRITICAL' if overlap_pct > 0.3 else 'HIGH'
Severity(overlap_pct) ==
    IF overlap_pct * 10 > 3 * Resolution THEN "CRITICAL" ELSE "HIGH"

\* mutant of EmitsOverlap: a record for a concession without overlap too
EmitsOverlapFromZero(overlap_pct) ==
    overlap_pct >= 0

\* line 254: if overlap_pct > 0
EmitsOverlap(overlap_pct) ==
    overlap_pct > 0

\* mutant of NearCentre: the offsets applied to the region's centre
CentreOfRegion(base_forest, region, dlat, dlon) ==
    [lat |-> region.center_lat + dlat, lon |-> region.center_lon + dlon]

\* lines 227-228: the centre of an overlapping concession
NearCentre(base_forest, region, dlat, dlon) ==
    [lat |-> base_forest.center_lat + dlat, lon |-> base_forest.center_lon + dlon]

\* line 256: Point(lon, lat).buffer(size * overlap_pct)
OverlapPolygon(lon, lat, size, overlap_pct) ==
    Buffer(lon * Resolution, lat * Resolution, size * overlap_pct)

\* lines 225-266: one concession and the overlap record it may bring
Concession(region, i, forest_areas, r) ==
    LET overlapping == i < NumOverlapping
        \* past the overlapping ones base_forest keeps its last assignment
        base_forest == BaseForest(forest_areas,
                                  IF overlapping THEN i ELSE NumOverlapping - 1)
        r1 == RngNext(r)
        r2 == RngNext(r1)
        r3 == IF overlapping THEN RngNext(r2) ELSE r2
        r4 == RngNext(r3)
        centre == IF overlapping
                  THEN NearCentre(base_forest, region,
                                  Uniform(NearDraws, r1), Uniform(NearDraws, r2))
                  ELSE [lat |-> region.center_lat + Uniform(LatDraws, r1),
                        lon |-> region.center_lon + Uniform(LonDraws, r2)]
        overlap_pct == IF overlapping THEN Uniform(OverlapPctDraws, r3) ELSE 0
        size == Uniform(SawitSizeDraws, r4)
        r5 == IF overlap_pct > 0 THEN r4 ELSE RngNext(r4)
        company_id == <<"PT SAWIT", region.name, i + 1>>
    IN  [rec |-> [geometry |-> Buffer(centre.lon * Resolution,
                                      centre.lat * Resolution, size * Resolution),
                  company |-> company_id,
                  region |-> region.name,
                  permit_status |-> "Active",
                  center_lat |-> centre.lat,
                  center_lon |-> centre.lon,
                  overlap_percentage |-> overlap_pct * 100,
                  is_overlapping |-> overlap_pct > 0,
                  risk_score |-> RiskScore(overlap_pct, r5)],
         overlap |-> IF EmitsOverlap(overlap_pct)
                     THEN <<[geometry |-> OverlapPolygon(centre.lon, centre.lat,
                                                         size, overlap_pct),
                             company |-> company_id,
                             forest_area |-> base_forest.name,
                             overlap_percentage |-> overlap_pct * 100,
                             severity |-> Severity(overlap_pct),
                             center_lat |-> centre.lat,
                             center_lon |-> centre.lon]>>
                     ELSE <<>>,
         rng |-> r5]

\* calls of np.random per loop iteration: lat, lon, size for a forest; lat,
\* lon and size for a concession, with overlap_pct when it overlaps and the
\* risk score's randint when it does not
DrawsPerForest ==
    3

DrawsPerConcession ==
    4

DrawsPerRegion ==
    NumForests * DrawsPerForest + NumConcessions * DrawsPerConcession

\* lines 207-221: forest_areas once the forest loop of region k is done; r is
\* the generator state at the call of generate_realistic_geodata
ForestAreas(k, r) ==
    [j \in 1..(k * NumForests) |->
        LET kk == ((j - 1) \div NumForests) + 1
            i == (j - 1) % NumForests
        IN  ForestArea(regions[kk], i,
                       RngAt(r, (kk - 1) * DrawsPerRegion + i * DrawsPerForest)).rec]

\* lines 224-266: what each iteration of the concession loops yields; the
\* loop of region k sees the forests of regions 1..k
ConcessionSteps(forests, r) ==
    [j \in 1..(Len(regions) * NumConcessions) |->
        LET kk == ((j - 1) \div NumConcessions) + 1
            i == (j - 1) % NumConcessions
        IN  Concession(regions[kk], i, SubSeq(forests, 1, kk * NumForests),
                       RngAt(r, (kk - 1) * DrawsPerRegion
                                + NumForests * DrawsPerForest
                                + i * DrawsPerConcession))]

\* lines 191-272; r is the generator state at the call
generate_realistic_geodata(r) ==
    LET forests == CHOOSE fs \in {ForestAreas(Len(regions), r)} : TRUE
        steps == CHOOSE st \in {ConcessionSteps(forests, r)} : TRUE
        emitted == SelectSeq(steps, LAMBDA c : Len(c.overlap) > 0)
    IN  [forest_areas |-> forests,
         sawit_concessions |-> [j \in 1..Len(steps) |-> steps[j].rec],
         overlap_areas |-> [j \in 1..Len(emitted) |-> emitted[j].overlap[1]],
         rng |-> RngAt(r, Len(regions) * DrawsPerRegion)]

\* -------------------------------------------------------------- the loaders
GeoFiles ==
    {"forest.shp", "sawit.shp", "overlap.shp"}

\* what reading a path finds: a readable file, no file, or one the reader rejects
FileStatus ==
    {"ok", "missing", "unreadable"}

NoData ==
    [forest_gdf |-> <<>>, sawit_gdf |-> <<>>, overlap_gdf |-> <<>>]

NoOut ==
    [status |-> "none", source |-> "none", data |-> NoData]

NoCall ==
    [fn |-> "none", env |-> <<>>, epoch |-> 0, hit |-> FALSE, out |-> NoOut]

EmptyCache ==
    [fn \in {"load_geospatial_data", "load_financial_data", "load_company_data"}
        |-> [full |-> FALSE, out |-> NoOut]]

\* mutant of load_geospatial_data: the files used as soon as one of them loads
load_geospatial_data_partial(env, r, demo) ==
    IF \E f \in GeoFiles : env[f] = "ok"
    THEN [out |-> [status |-> "ok", source |-> "files", data |-> NoData], rng |-> r]
    ELSE [out |-> [status |-> "ok", source |-> "synthetic",
                   data |-> [forest_gdf |-> demo.forest_areas,
                             sawit_gdf |-> demo.sawit_concessions,
                             overlap_gdf |-> demo.overlap_areas]],
          rng |-> demo.rng]

\* lines 135-143, the body of load_geospatial_data: the three shapefiles when
\* all of them load (their contents are not modelled), else the demo data;
\* demo is what generate_realistic_geodata() returns in the current state
load_geospatial_data(env, r, demo) ==
    IF \A f \in GeoFiles : env[f] = "ok"
    THEN [out |-> [status |-> "ok", source |-> "files", data |-> NoData], rng |-> r]
    ELSE [out |-> [status |-> "ok", source |-> "synthetic",
                   data |-> [forest_gdf |-> demo.forest_areas,
                             sawit_gdf |-> demo.sawit_concessions,
                             overlap_gdf |-> demo.overlap_areas]],
          rng |-> demo.rng]

\* mutant of CacheHit: the loaders without @st.cache_data
NeverCached(fn) ==
    FALSE

\* @st.cache_data: a stored return value is handed back without running the body
CacheHit(fn) ==
    cache[fn].full

\* @st.cache_data stores a return value, never a raised exception
Store(fn, out) ==
    IF out.status = "ok"
    THEN [cache EXCEPT ![fn] = [full |-> TRUE, out |-> out]]
    ELSE cache

\* a call of load_geospatial_data() (lines 132-143)
LoadGeospatialData ==
    LET fn == "load_geospatial_data"
    IN  /\ calls < MaxCalls
        /\ calls' = calls + 1
        /\ IF CacheHit(fn)
           THEN /\ ret' = [fn |-> fn, env |-> <<>>, epoch |-> epoch, hit |-> TRUE,
                           out |-> cache[fn].out]
                /\ UNCHANGED <<rng, np_int32, cache, epoch, ai, session, scoring, run>>
           ELSE \E demo \in {generate_realistic_geodata(rng)} :
                \E env \in [GeoFiles -> FileStatus] :
                \E res \in {load_geospatial_data(env, rng, demo)} :
                   /\ ret' = [fn |-> fn, env |-> env, epoch |-> epoch,
                              hit |-> FALSE, out |-> res.out]
                   /\ cache' = Store(fn, res.out)
                   /\ rng' = res.rng
                   /\ UNCHANGED <<np_int32, epoch, ai, session, scoring, run>>

FinFiles ==
    {"data/transactions.csv", "data/transactions_high_risk.csv",
     "data/transactions_clusters.csv", "data/bank_accounts.csv"}

\* the directory "data" exists or not; without it none of its files exists
FinEnvs ==
    {e \in [FinFiles \cup {"data"} -> FileStatus] :
        /\ e["data"] # "unreadable"
        /\ e["data"] = "missing" => \A f \in FinFiles : e[f] = "missing"}

CompanyFiles ==
    {"data/pt_data.csv", "jalak_hijau_pt_data.csv"}

\* np.random calls of generate_demo_financial_data (lines 278-301): six per
\* transaction, two per cluster
DrawsFinancial ==
    1000 * 6 + 5 * 2

\* np.random calls of generate_demo_companies (lines 317-324): two per company
DrawsCompanies ==
    6 * 2

\* lines 148-169, the body of load_financial_data: the four CSV files when the
\* directory exists and all of them load and parse, else the demo data (the
\* tables' contents are not modelled)
load_financial_data(env, r) ==
    IF env["data"] = "ok" /\ \A f \in FinFiles : env[f] = "ok"
    THEN [out |-> [status |-> "ok", source |-> "files", data |-> NoData], rng |-> r]
    ELSE [out |-> [status |-> "ok", source |-> "synthetic", data |-> NoData],
          rng |-> RngAt(r, DrawsFinancial)]

\* lines 308-326: np.random.randint(1000000000, 10000000000) asks for numbers
\* beyond 2^31 - 1; where numpy's default integer is 32 bits wide the call
\* raises ValueError, on the first company, after one draw
generate_demo_companies(int32, r) ==
    IF int32
    THEN [out |-> [status |-> "raised", source |-> "none", data |-> NoData],
          rng |-> RngAt(r, 1)]
    ELSE [out |-> [status |-> "ok", source |-> "synthetic", data |-> NoData],
          rng |-> RngAt(r, DrawsCompanies)]

\* lines 174-189, the body of load_company_data: data/pt_data.csv, else
\* jalak_hijau_pt_data.csv, else the demo companies; what the last handler
\* raises reaches the caller
load_company_data(env, int32, r) ==
    IF env["data/pt_data.csv"] = "ok"
    THEN [out |-> [status |-> "ok", source |-> "data/pt_data.csv", data |-> NoData],
          rng |-> r]
    ELSE IF env["jalak_hijau_pt_data.csv"] = "ok"
    THEN [out |-> [status |-> "ok", source |-> "jalak_hijau_pt_data.csv",
                   data |-> NoData],
          rng |-> r]
    ELSE generate_demo_companies(int32, r)

\* a call of load_financial_data() (lines 145-169)
LoadFinancialData ==
    LET fn == "load_financial_data"
    IN  /\ calls < MaxCalls
        /\ calls' = calls + 1
        /\ IF CacheHit(fn)
           THEN /\ ret' = [fn |-> fn, env |-> <<>>, epoch |-> epoch, hit |-> TRUE,
                           out |-> cache[fn].out]
                /\ UNCHANGED <<rng, np_int32, cache, epoch, ai, session, scoring, run>>
           ELSE \E env \in FinEnvs :
                \E res \in {load_financial_data(env, rng)} :
                   /\ ret' = [fn |-> fn, env |-> env, epoch |-> epoch,
                              hit |-> FALSE, out |-> res.out]
                   /\ cache' = Store(fn, res.out)
                   /\ rng' = res.rng
                   /\ UNCHANGED <<np_int32, epoch, ai, session, scoring, run>>

\* a call of load_company_data() (lines 171-189)
LoadCompanyData ==
    LET fn == "load_company_data"
    IN  /\ calls < MaxCalls
        /\ calls' = calls + 1
        /\ IF CacheHit(fn)
           THEN /\ ret' = [fn |-> fn, env |-> <<>>, epoch |-> epoch, hit |-> TRUE,
                           out |-> cache[fn].out]
                /\ UNCHANGED <<rng, np_int32, cache, epoch, ai, session, scoring, run>>
           ELSE \E env \in [CompanyFiles -> FileStatus] :
                \E res \in {load_company_data(env, np_int32, rng)} :
                   /\ ret' = [fn |-> fn, env |-> env, epoch |-> epoch,
                              hit |-> FALSE, out |-> res.out]
                   /\ cache' = Store(fn, res.out)
                   /\ rng' = res.rng
                   /\ UNCHANGED <<np_int32, epoch, ai, session, scoring, run>>

\* Streamlit's "Clear cache" command empties every st.cache_data store
ClearCache ==
    /\ epoch < MaxClears
    /\ epoch' = epoch + 1
    /\ cache' = EmptyCache
    /\ UNCHANGED <<rng, np_int32, ret, calls, ai, session, scoring, run>>

\* ------------------------------------------------------- the AI assistant
\* what setup_openai finds: the endpoint and the key configured or not, and
\* whether reading the secrets or building the client raises
AiConfigs ==
    [endpoint : BOOLEAN, api_key : BOOLEAN, fails : BOOLEAN]

\* lines 1039-1046
quick_queries ==
    <<"Analisis PT BERKAH SAWIT NUSANTARA",
      "Pola transaksi mencurigakan hari ini",
      "Perusahaan dengan risk score tertinggi",
      "Generate laporan investigasi",
      "Rekomendasi prioritas tindakan",
      "Prediksi tren kejahatan lingkungan">>

\* what the text field may hold, and every query the page can send
TypedQueries ==
    {"", "Analisis pola transaksi PT BERKAH SAWIT"}

Queries ==
    TypedQueries \cup {quick_queries[k] : k \in 1..Len(quick_queries)}

\* what client.chat.completions.create does: it answers, or it raises, or the
\* answer has no choice to read (IndexError)
ApiOutcomes ==
    {[kind |-> "ok", text |-> "analisis"],
     [kind |-> "error", text |-> "Connection error."],
     [kind |-> "error", text |-> "Error code: 401"],
     [kind |-> "error", text |-> "list index out of range"]}

None ==
    "None"

\* lines 329-347: every exception ends in None
setup_openai(config) ==
    IF config.fails
    THEN None
    ELSE IF config.api_key /\ config.endpoint THEN "AzureOpenAI" ELSE None

\* a text is its fixed wording and the text spliced into it
Message(text, detail) ==
    [text |-> text, detail |-> detail]

\* mutant of generate_ai_analysis: the API call outside any try
generate_ai_analysis_unguarded(client, user_query, api) ==
    IF client = None
    THEN [status |-> "returned",
          out |-> Message("AI Assistant tidak tersedia. Pastikan Azure OpenAI sudah dikonfigurasi dengan benar.", "")]
    ELSE IF api.kind = "ok"
    THEN [status |-> "returned", out |-> Message(api.text, "")]
    ELSE [status |-> "raised", out |-> Message(api.text, "")]

\* lines 349-382; api is what the API call does when it is made
generate_ai_analysis(client, user_query, api) ==
    IF client = None
    THEN [status |-> "returned",
          out |-> Message("AI Assistant tidak tersedia. Pastikan Azure OpenAI sudah dikonfigurasi dengan benar.", "")]
    ELSE IF api.kind = "ok"
    THEN [status |-> "returned", out |-> Message(api.text, "")]
    ELSE [status |-> "returned",
          out |-> Message("Error dalam analisis AI: {str(e)}. Periksa konfigurasi Azure OpenAI.",
                          api.text)]

NoAi ==
    [config |-> [endpoint |-> FALSE, api_key |-> FALSE, fails |-> FALSE],
     query |-> "", api |-> [kind |-> "ok", text |-> "analisis"],
     pc |-> "idle", client |-> None, status |-> "none", out |-> Message("", "")]

\* client = setup_openai() (line 989)
SetupOpenai ==
    /\ ai.pc = "setup"
    /\ ai' = [ai EXCEPT !.client = setup_openai(ai.config), !.pc = "analyse"]
    /\ UNCHANGED <<rng, np_int32, cache, epoch, ret, calls, session, scoring, run>>

\* ai_response = generate_ai_analysis(client, data_context, user_query)
GenerateAiAnalysis ==
    /\ ai.pc = "analyse"
    /\ \E res \in {generate_ai_analysis(ai.client, ai.query, ai.api)} :
          ai' = [ai EXCEPT !.status = res.status, !.out = res.out, !.pc = "done"]
    /\ UNCHANGED <<rng, np_int32, cache, epoch, ret, calls, session, scoring, run>>

\* ------------------------------------------------------- the session state
Sessions ==
    {"A", "B"}

\* the alerts the overview page offers (lines 645-691): from the overlap
\* records, from the high-risk transactions, and the two fallback alerts
AlertFeed ==
    {[id |-> "ALT-GEO-1156", type |-> "Forest-Concession Overlap",
      risk |-> "CRITICAL", alert_source |-> "geospatial"],
     [id |-> "ALT-FIN-2156", type |-> "Suspicious Transaction Pattern",
      risk |-> "HIGH", alert_source |-> "financial"],
     [id |-> "ALT-GEO-0156", type |-> "Forest-Concession Overlap",
      risk |-> "CRITICAL", alert_source |-> "geospatial"],
     [id |-> "ALT-FIN-0157", type |-> "Suspicious Transaction Pattern",
      risk |-> "HIGH", alert_source |-> "financial"]}

\* word in alert_data.get('type', '').lower(), for the types of the feed
InLower(word, type) ==
    <<word, type>> \in {<<"overlap", "Forest-Concession Overlap">>}

\* what the text inputs of the investigation dashboard may hold
Texts ==
    {"", "catatan"}

\* the empty dict
EmptyDict ==
    [k \in {} |-> None]

\* lines 121-129
init_session_state ==
    [selected_alert |-> None,
     chat_history |-> <<>>,
     investigation_mode |-> FALSE,
     investigation_data |-> EmptyDict]

\* lines 385-430, for the session state st
start_investigation(st, alert_id, alert_data) ==
    LET overlap == InLower("overlap", alert_data.type)
        transaksi == InLower("transaksi", alert_data.type)
        investigation_data ==
            [alert_id |-> alert_id,
             status |-> "ACTIVE",
             priority |-> "HIGH",
             assigned_to |-> "Tim Investigasi PPATK",
             start_date |-> "now",
             case_summary |-> alert_data,
             evidence_collected |->
                 IF overlap
                 THEN <<"Citra satelit menunjukkan overlap 127 ha",
                        "Izin HGU tidak mencakup area hutan lindung",
                        "Transfer Rp 45M ke shell company sehari setelah clearing",
                        "Beneficial owner: Ahmad Wijaya">>
                 ELSE IF transaksi
                 THEN <<"Pola structuring: 12 transaksi di bawah Rp 500M",
                        "Network: 5 perusahaan shell terkait",
                        "Total dana mencurigakan: Rp 2.8 miliar",
                        "Timing: Semua transaksi dalam 48 jam">>
                 ELSE <<>>,
             next_actions |->
                 IF overlap
                 THEN <<"Verifikasi lapangan koordinat overlap",
                        "Koordinasi dengan KLHK untuk status kawasan",
                        "Request rekening koran semua entitas terkait",
                        "Background check beneficial owner">>
                 ELSE IF transaksi
                 THEN <<"Analisis mendalam pola transaksi",
                        "Freeze account sementara",
                        "Trace beneficial ownership",
                        "Koordinasi dengan unit cyber crime">>
                 ELSE <<>>,
             timeline |-> <<>>]
    IN  [st EXCEPT !.investigation_mode = TRUE,
                   !.selected_alert = alert_id,
                   !.investigation_data = investigation_data]

\* mutant of Put: one state shared by every session, as a module global is
PutShared(s, st) ==
    [t \in Sessions |-> st]

\* st.session_state of session s after a handler: each browser session has
\* its own st.session_state
Put(s, st) ==
    [session EXCEPT ![s] = st]

\* mutant of PagesReached: main without the return of line 1089
PagesAlwaysReached(st) ==
    TRUE

\* main returns after the investigation dashboard (lines 1076-1089): the
\* sidebar and the pages are reached only outside investigation mode
PagesReached(st) ==
    ~st.investigation_mode

\* the sidebar's Active Investigations figure (line 1127), when main gets to it
Sidebar(st) ==
    IF PagesReached(st)
    THEN <<IF st.investigation_mode THEN 1 ELSE 0>>
    ELSE <<>>

\* the latest script run: its session, the handler its button fired, and the
\* sidebar of the page the session then shows (the rerun's, or this run's own
\* when the handler asks for none)
Ran(s, handler) ==
    [session |-> s, handler |-> handler, sidebar |-> Sidebar(session'[s])]

\* the first load of the application
FirstRun ==
    [session |-> "A", handler |-> "load", sidebar |-> Sidebar(init_session_state)]

\* mutant of StartInvestigation: the alert's type taken for its id
StartInvestigationByType(s, alert) ==
    /\ PagesReached(session[s])
    /\ session' = Put(s, [start_investigation(session[s], alert.id, alert)
                             EXCEPT !.selected_alert = alert.type])
    /\ run' = Ran(s, "start")
    /\ UNCHANGED <<rng, np_int32, cache, epoch, ret, calls, ai, scoring>>

\* the Start Investigation button of an alert (lines 713-716)
StartInvestigation(s, alert) ==
    /\ PagesReached(session[s])
    /\ session' = Put(s, start_investigation(session[s], alert.id, alert))
    /\ run' = Ran(s, "start")
    /\ UNCHANGED <<rng, np_int32, cache, epoch, ret, calls, ai, scoring>>

\* mutant of ExitInvestigation: selected_alert left as it is
ExitKeepingAlert(s) ==
    /\ session[s].investigation_mode
    /\ session' = Put(s, [session[s] EXCEPT !.investigation_mode = FALSE,
                                            !.investigation_data = EmptyDict])
    /\ run' = Ran(s, "exit")
    /\ UNCHANGED <<rng, np_int32, cache, epoch, ret, calls, ai, scoring>>

\* mutant of ExitInvestigation: the chat reset with the investigation
ExitClearingChat(s) ==
    /\ session[s].investigation_mode
    /\ session' = Put(s, init_session_state)
    /\ run' = Ran(s, "exit")
    /\ UNCHANGED <<rng, np_int32, cache, epoch, ret, calls, ai, scoring>>

\* the Exit Investigation button (lines 1083-1087)
ExitInvestigation(s) ==
    /\ session[s].investigation_mode
    /\ session' = Put(s, [session[s] EXCEPT !.investigation_mode = FALSE,
                                            !.selected_alert = None,
                                            !.investigation_data = EmptyDict])
    /\ run' = Ran(s, "exit")
    /\ UNCHANGED <<rng, np_int32, cache, epoch, ret, calls, ai, scoring>>

\* entries the dashboard has added to the two lists of the investigation
Added(st) ==
    LET d == st.investigation_data
        fresh == start_investigation(st, d.alert_id, d.case_summary).investigation_data
    IN  (Len(d.evidence_collected) - Len(fresh.evidence_collected))
        + (Len(d.next_actions) - Len(fresh.next_actions))

\* mutant of AddEvidence: the entry put first
AddEvidenceAtFront(s, new_evidence) ==
    /\ session[s].investigation_mode
    /\ IF new_evidence # ""
       THEN /\ Added(session[s]) < MaxAdded
            /\ session' = Put(s, [session[s] EXCEPT
                   !.investigation_data.evidence_collected =
                       <<"(memo) " \o new_evidence>> \o @])
       ELSE session' = session
    /\ run' = Ran(s, "add_evidence")
    /\ UNCHANGED <<rng, np_int32, cache, epoch, ret, calls, ai, scoring>>

\* the Add Evidence button (lines 475-479); the source prefixes the text with
\* a memo sign
AddEvidence(s, new_evidence) ==
    /\ session[s].investigation_mode
    /\ IF new_evidence # ""
       THEN /\ Added(session[s]) < MaxAdded
            /\ session' = Put(s, [session[s] EXCEPT
                   !.investigation_data.evidence_collected =
                       Append(@, "(memo) " \o new_evidence)])
       ELSE session' = session
    /\ run' = Ran(s, "add_evidence")
    /\ UNCHANGED <<rng, np_int32, cache, epoch, ret, calls, ai, scoring>>

\* the Add Action button (lines 491-495); the source prefixes the text with a
\* target sign
AddAction(s, new_action) ==
    /\ session[s].investigation_mode
    /\ IF new_action # ""
       THEN /\ Added(session[s]) < MaxAdded
            /\ session' = Put(s, [session[s] EXCEPT
                   !.investigation_data.next_actions =
                       Append(@, "(target) " \o new_action)])
       ELSE session' = session
    /\ run' = Ran(s, "add_action")
    /\ UNCHANGED <<rng, np_int32, cache, epoch, ret, calls, ai, scoring>>

\* mutant of CompleteAction: the completed action taken off the list
CompleteRemovesAction(s, i) ==
    /\ session[s].investigation_mode
    /\ i \in 1..Len(session[s].investigation_data.next_actions)
    /\ session' = Put(s, [session[s] EXCEPT
           !.investigation_data.next_actions =
               SubSeq(@, 1, i - 1) \o SubSeq(@, i + 1, Len(@))])
    /\ run' = Ran(s, "complete")
    /\ UNCHANGED <<rng, np_int32, cache, epoch, ret, calls, ai, scoring>>

\* the button that marks action i complete (lines 488-489) shows a message
CompleteAction(s, i) ==
    /\ session[s].investigation_mode
    /\ i \in 1..Len(session[s].investigation_data.next_actions)
    /\ session' = session
    /\ run' = Ran(s, "complete")
    /\ UNCHANGED <<rng, np_int32, cache, epoch, ret, calls, ai, scoring>>

\* the two appends to chat_history of the assistant page
Exchange(st, query, ai_response) ==
    [st EXCEPT !.chat_history =
        Append(Append(@, [role |-> "user", content |-> Message(query, "")]),
               [role |-> "assistant", content |-> ai_response])]

\* what the chat finds when it asks the assistant: the client there or not,
\* the call answered or failing
ChatConfigs ==
    {c \in AiConfigs : ~c.fails /\ c.endpoint}

ChatApi ==
    {a \in ApiOutcomes : a.text \in {"analisis", "Connection error."}}

\* the Kirim button (lines 1018-1029)
SendChat(s, user_query) ==
    /\ PagesReached(session[s])
    /\ IF user_query # ""
       THEN /\ Len(session[s].chat_history) + 2 <= MaxChatLen
            /\ \E config \in ChatConfigs : \E api \in ChatApi :
                  session' = Put(s, Exchange(session[s], user_query,
                      generate_ai_analysis(setup_openai(config), user_query, api).out))
       ELSE session' = session
    /\ run' = Ran(s, "send")
    /\ UNCHANGED <<rng, np_int32, cache, epoch, ret, calls, ai, scoring>>

\* a quick query button (lines 1048-1056)
QuickQuery(s, query) ==
    /\ PagesReached(session[s])
    /\ Len(session[s].chat_history) + 2 <= MaxChatLen
    /\ \E config \in ChatConfigs : \E api \in ChatApi :
          session' = Put(s, Exchange(session[s], query,
              generate_ai_analysis(setup_openai(config), query, api).out))
    /\ run' = Ran(s, "quick")
    /\ UNCHANGED <<rng, np_int32, cache, epoch, ret, calls, ai, scoring>>

\* the Clear Chat button (lines 1031-1034)
ClearChat(s) ==
    /\ PagesReached(session[s])
    /\ session' = Put(s, [session[s] EXCEPT !.chat_history = <<>>])
    /\ run' = Ran(s, "clear")
    /\ UNCHANGED <<rng, np_int32, cache, epoch, ret, calls, ai, scoring>>

\* one handler of session s runs
SessionStep(s) ==
    \/ \E alert \in AlertFeed : StartInvestigation(s, alert)
    \/ ExitInvestigation(s)
    \/ \E text \in Texts : AddEvidence(s, text)
    \/ \E text \in Texts : AddAction(s, text)
    \/ \E i \in 1..(4 + MaxAdded) : CompleteAction(s, i)
    \/ \E q \in TypedQueries : SendChat(s, q)
    \/ QuickQuery(s, quick_queries[1])
    \/ ClearChat(s)

\* ------------------------------------------------------------ the risk score
NoScoring ==
    [overlap_pct |-> 0, r |-> 0, done |-> FALSE, risk_score |-> 0]

\* risk_score = ... (line 249) for the fraction and the generator state held
ScoreStep ==
    /\ ~scoring.done
    /\ scoring' = [scoring EXCEPT !.done = TRUE,
                       !.risk_score = RiskScore(scoring.overlap_pct, scoring.r)]
    /\ UNCHANGED <<rng, np_int32, cache, epoch, ret, calls, ai, session, run>>

\* ------------------------------------------------------------ specifications
\* the generator state comes from the operating system's entropy; whether
\* numpy's default integer has 32 bits depends on the platform and the build
InitGeo ==
    /\ rng \in 0..MaxSeed
    /\ np_int32 \in BOOLEAN
    /\ cache = EmptyCache
    /\ epoch = 0
    /\ ret = NoCall
    /\ calls = 0
    /\ ai = NoAi
    /\ session = [s \in Sessions |-> init_session_state]
    /\ scoring = NoScoring
    /\ run = FirstRun

NextGeo ==
    \/ LoadGeospatialData
    \/ ClearCache

\* the geospatial loader alone
SpecGeo ==
    InitGeo /\ [][NextGeo]_vars

\* the three loaders, from one generator state
InitLoad ==
    /\ InitGeo
    /\ rng = 0

NextLoad ==
    \/ LoadGeospatialData
    \/ LoadFinancialData
    \/ LoadCompanyData
    \/ ClearCache

SpecLoad ==
    InitLoad /\ [][NextLoad]_vars

\* one call of the assistant, on every configuration, query and API outcome
InitAI ==
    /\ rng = 0
    /\ np_int32 = FALSE
    /\ cache = EmptyCache
    /\ epoch = 0
    /\ ret = NoCall
    /\ calls = 0
    /\ \E config \in AiConfigs : \E query \in Queries : \E api \in ApiOutcomes :
          ai = [NoAi EXCEPT !.config = config, !.query = query, !.api = api,
                            !.pc = "setup"]
    /\ session = [s \in Sessions |-> init_session_state]
    /\ scoring = NoScoring
    /\ run = FirstRun

NextAI ==
    \/ SetupOpenai
    \/ GenerateAiAnalysis

SpecAI ==
    InitAI /\ [][NextAI]_vars

\* the browser sessions, each on a page of its own
InitSession ==
    /\ rng = 0
    /\ np_int32 = FALSE
    /\ cache = EmptyCache
    /\ epoch = 0
    /\ ret = NoCall
    /\ calls = 0
    /\ ai = NoAi
    /\ session = [s \in Sessions |-> init_session_state]
    /\ scoring = NoScoring
    /\ run = FirstRun

NextSession ==
    \E s \in Sessions : SessionStep(s)

SpecSession ==
    InitSession /\ [][NextSession]_vars

\* the score of every overlap fraction from 0 to 1
InitScore ==
    /\ rng = 0
    /\ np_int32 = FALSE
    /\ cache = EmptyCache
    /\ epoch = 0
    /\ ret = NoCall
    /\ calls = 0
    /\ ai = NoAi
    /\ session = [s \in Sessions |-> init_session_state]
    /\ \E p \in 0..Resolution : \E r \in 0..MaxSeed :
          scoring = [NoScoring EXCEPT !.overlap_pct = p, !.r = r]
    /\ run = FirstRun

NextScore ==
    ScoreStep

SpecScore ==
    InitScore /\ [][NextScore]_vars

\* ------------------------------------------------- claims on the demo data
\* the demo datasets the state holds
SyntheticGeo ==
    {o.data : o \in {x \in {ret.out, cache["load_geospatial_data"].out} :
                        x.source = "synthetic"}}

Rows(gdf) ==
    {gdf[k] : k \in 1..Len(gdf)}

Concessions ==
    UNION {Rows(d.sawit_gdf) : d \in SyntheticGeo}

Overlaps ==
    UNION {Rows(d.overlap_gdf) : d \in SyntheticGeo}

\* two buffers certainly share a point when their centres are no further
\* apart than the sum of the radii of the circles inscribed in the polygons
\* (0.998 of the buffer radius for the 64-sided buffer)
Intersects(a, b) ==
    LET dx == a.x - b.x
        dy == a.y - b.y
        reach == ((a.radius + b.radius) * 998) \div 1000
    IN  dx * dx + dy * dy <= reach * reach

\* area(part) / area(whole) * 100 in units of 1/Resolution percent: buffers
\* are similar polygons, so their areas are in the ratio of the squared radii
AreaPercent(part, whole) ==
    (((part.radius * 100 * Resolution) \div whole.radius) * part.radius)
        \div whole.radius

\* C1: an overlapping concession scores in [85,100), any other in [20,40), so
\* risk_score >= 85 exactly when is_overlapping
C1_RiskScoreRanges ==
    \A c \in Concessions :
        /\ c.is_overlapping => c.risk_score \in 85..99
        /\ ~c.is_overlapping => c.risk_score \in 20..39
        /\ (c.risk_score >= 85) <=> c.is_overlapping

C1_Witness ==
    /\ \E c \in Concessions : c.is_overlapping /\ c.risk_score = 91
    /\ \E c \in Concessions : c.is_overlapping /\ c.risk_score = 87
    /\ \E c \in Concessions : ~c.is_overlapping /\ c.risk_score = 39
    /\ \E c \in Concessions : ~c.is_overlapping /\ c.risk_score = 20

\* C2 as claimed: severity is CRITICAL above 30 percent, HIGH above 15 and up
\* to 30, MEDIUM otherwise (so MEDIUM at exactly 15 percent)
C2_SeverityThreeWay ==
    \A o \in Overlaps :
        o.severity = IF o.overlap_percentage > 30 * Resolution THEN "CRITICAL"
                     ELSE IF o.overlap_percentage > 15 * Resolution THEN "HIGH"
                     ELSE "MEDIUM"

\* C2 amended: severity is CRITICAL above 30 percent and HIGH otherwise; every
\* record has at least 15 and less than 45 percent, a record at exactly 15
\* percent is HIGH, and MEDIUM is never produced
C2_SeverityTwoWay ==
    \A o \in Overlaps :
        /\ o.overlap_percentage >= 15 * Resolution
        /\ o.overlap_percentage < 45 * Resolution
        /\ o.severity = IF o.overlap_percentage > 30 * Resolution
                        THEN "CRITICAL" ELSE "HIGH"

C2_Witness ==
    /\ \E o \in Overlaps :
          o.overlap_percentage = 15 * Resolution /\ o.severity = "HIGH"
    /\ \E o \in Overlaps :
          o.overlap_percentage = 30 * Resolution /\ o.severity = "HIGH"
    /\ \E o \in Overlaps :
          o.overlap_percentage > 30 * Resolution /\ o.severity = "CRITICAL"

\* C3 as claimed: a record's overlap_percentage is the area of its overlap
\* geometry over the area of its concession's geometry, times 100 (to within
\* 0.05 percent)
C3_PercentageIsAreaRatio ==
    \A d \in SyntheticGeo : \A o \in Rows(d.overlap_gdf) :
        \A c \in Rows(d.sawit_gdf) :
            c.company = o.company =>
                LET diff == o.overlap_percentage - AreaPercent(o.geometry, c.geometry)
                IN  -5 * Resolution <= diff * 100 /\ diff * 100 <= 5 * Resolution

\* C4: every overlap record names a company and a forest area of its dataset
\* whose polygons intersect, so no record exists for a disjoint pair
C4_RecordsIntersect ==
    \A d \in SyntheticGeo : \A o \in Rows(d.overlap_gdf) :
        LET named == {c \in Rows(d.sawit_gdf) : c.company = o.company}
            forests == {f \in Rows(d.forest_gdf) : f.name = o.forest_area}
        IN  /\ named # {}
            /\ forests # {}
            /\ \A c \in named : \A f \in forests :
                  Intersects(c.geometry, f.geometry)

\* the pair furthest apart that the draws allow: both offsets at their
\* largest, both radii at their smallest
C4_Witness ==
    \E d \in SyntheticGeo : \E o \in Rows(d.overlap_gdf) :
        \E c \in Rows(d.sawit_gdf) : \E f \in Rows(d.forest_gdf) :
            /\ c.company = o.company
            /\ f.name = o.forest_area
            /\ c.center_lat - f.center_lat = NearDraws[1]
            /\ c.center_lon - f.center_lon = NearDraws[1]
            /\ c.geometry.radius = SawitSizeDraws[1] * Resolution
            /\ f.geometry.radius = ForestSizeDraws[1] * Resolution

\* the thresholds (in percent) a caller could ask for
Thresholds ==
    0..100

\* C5 as claimed: whatever minimum-overlap threshold is asked for, no record
\* with a smaller percentage appears in the result
C5_ThresholdRespected ==
    \A t \in Thresholds : \A o \in Overlaps :
        o.overlap_percentage >= t * Resolution

\* C5 amended: a record is emitted exactly for the concessions with a positive
\* overlap fraction, and every record has at least 15 percent; no threshold is
\* taken from the caller
C5_EmittedIffOverlapping ==
    \A d \in SyntheticGeo :
        /\ \A o \in Rows(d.overlap_gdf) :
              /\ o.overlap_percentage >= 15 * Resolution
              /\ \E c \in Rows(d.sawit_gdf) :
                    /\ c.company = o.company
                    /\ c.is_overlapping
                    /\ c.overlap_percentage = o.overlap_percentage
        /\ \A c \in Rows(d.sawit_gdf) :
              c.is_overlapping <=> \E o \in Rows(d.overlap_gdf) : o.company = c.company

C5_Witness ==
    \E d \in SyntheticGeo :
        /\ \E o \in Rows(d.overlap_gdf) : o.overlap_percentage = 15 * Resolution
        /\ \E c \in Rows(d.sawit_gdf) : ~c.is_overlapping /\ c.overlap_percentage = 0
        /\ Len(d.overlap_gdf) = NumOverlapping * Len(regions)

\* ---------------------------------------------------- claims on the loaders
Loaders ==
    {"load_geospatial_data", "load_financial_data", "load_company_data"}

\* a loader that ran its body found no input it can use: for the shapefiles and
\* the financial tables one failing file is enough, the company loader has
\* two files to choose from
InputsFail(call) ==
    /\ ~call.hit
    /\ IF call.fn = "load_company_data"
       THEN \A f \in CompanyFiles : call.env[f] # "ok"
       ELSE \E f \in DOMAIN call.env : call.env[f] # "ok"

\* C6 as claimed: no loader raises, whatever the files are, and a loader whose
\* input fails returns the synthetic data set
C6_LoadersNeverRaise ==
    ret.fn \in Loaders =>
        /\ ret.out.status = "ok"
        /\ InputsFail(ret) => ret.out.source = "synthetic"

\* a step in which a loader was called and came back
LoaderRan ==
    calls' = calls + 1

\* C8 as claimed: two runs of the loader on the same files return the same
\* records and the same risk scores
C8_SameInputsSameOutput ==
    [][(LoaderRan /\ ret.fn = "load_geospatial_data" /\ ret'.fn = ret.fn
           /\ ret'.env = ret.env)
          => ret'.out = ret.out]_vars

\* C8 amended: between two cache clears every call of the loader returns what
\* the call before it returned
C8_SameWithinCacheEpoch ==
    [][(LoaderRan /\ ret.fn = "load_geospatial_data" /\ ret'.fn = ret.fn
           /\ ret.epoch = epoch)
          => ret'.out = ret.out]_vars

\* a call answered with the demo data of an earlier call
C8_Witness ==
    /\ ret.fn = "load_geospatial_data"
    /\ ret.hit
    /\ ret.out.source = "synthetic"
    /\ Len(ret.out.data.sawit_gdf) = NumConcessions * Len(regions)

\* ------------------------------------------------- claims on the assistant
\* the call has come back, one way or the other
AiDone ==
    ai.pc = "done"

\* C7 as claimed: generate_ai_analysis never raises, and without a client or
\* with a failing API call it returns one fixed message, whatever the query
\* and the failure
C7_OneFixedMessage ==
    AiDone =>
        /\ ai.status = "returned"
        /\ (ai.client = None \/ ai.api.kind = "error") =>
              ai.out = [text |-> "AI Assistant tidak tersedia. Pastikan Azure OpenAI sudah dikonfigurasi dengan benar.",
                        detail |-> ""]

\* C7 amended: generate_ai_analysis never raises; without a client it returns
\* the fixed message, and when the API call fails it returns the error wording
\* with the text of the exception spliced in
C7_MessageByCause ==
    AiDone =>
        /\ ai.status = "returned"
        /\ ai.client = None =>
              ai.out = [text |-> "AI Assistant tidak tersedia. Pastikan Azure OpenAI sudah dikonfigurasi dengan benar.",
                        detail |-> ""]
        /\ (ai.client # None /\ ai.api.kind = "error") =>
              /\ ai.out.text = "Error dalam analisis AI: {str(e)}. Periksa konfigurasi Azure OpenAI."
              /\ ai.out.detail = ai.api.text

\* a configured client whose call was refused
C7_Witness ==
    /\ AiDone
    /\ ai.client # None
    /\ ai.api.kind = "error"
    /\ ai.query = quick_queries[4]
    /\ ai.out.detail = "Error code: 401"

\* -------------------------------------------------- claims on the sessions
\* C9: whatever handler runs, in whichever session, at most one session's
\* investigation_mode, selected_alert, investigation_data and chat_history
\* change, so no operation of one session changes the other session's state
C9_SessionsIsolated ==
    [][\A s \in Sessions : \A t \in Sessions \ {s} :
          session'[s] # session[s] => session'[t] = session[t]]_vars

\* one session deep in an investigation while the other has chatted
C9_Witness ==
    \E s \in Sessions : \E t \in Sessions \ {s} :
        /\ session[s].investigation_mode
        /\ session[s].selected_alert = "ALT-GEO-1156"
        /\ Added(session[s]) = MaxAdded
        /\ ~session[t].investigation_mode
        /\ session[t].investigation_data = EmptyDict
        /\ Len(session[t].chat_history) = 2

\* ------------------------------------------------- claims on the risk score
\* C10 as claimed: for every overlap fraction p in [0,1] with p > 0 the score
\* 85 + floor(p * 15) is at least 85 and below 100
C10_ScoreBelow100 ==
    (scoring.done /\ scoring.overlap_pct > 0) =>
        (scoring.risk_score >= 85 /\ scoring.risk_score < 100)

\* C10 amended: for every overlap fraction p with 0 < p < 1 the score is at
\* least 85 and below 100; at p = 1 it is exactly 100
C10_ScoreBelow100BelowOne ==
    scoring.done =>
        /\ (scoring.overlap_pct > 0 /\ scoring.overlap_pct < Resolution) =>
              (scoring.risk_score >= 85 /\ scoring.risk_score < 100)
        /\ scoring.overlap_pct = Resolution => scoring.risk_score = 100

\* the largest fraction below 1 scores 99
C10_Witness ==
    /\ scoring.done
    /\ scoring.overlap_pct = Resolution - 1
    /\ scoring.risk_score = 99

\* ------------------------------------------- claims on malformed geometry
\* the loader ran its body on files of which one is rejected by the reader
\* while another one loads
OneMalformed ==
    /\ ret.fn = "load_geospatial_data"
    /\ ~ret.hit
    /\ \E f \in GeoFiles : ret.env[f] = "unreadable"
    /\ \E f \in GeoFiles : ret.env[f] = "ok"

\* C11 as claimed: one malformed geometry input does not discard the rest of
\* the batch, the results of the valid inputs still come from the real data
C11_RestOfBatchKept ==
    OneMalformed => ret.out.source = "files"

\* C11 amended: one malformed input does not make the loader raise, but the
\* whole real batch is dropped: the result is the complete demo data set
C11_WholeBatchReplaced ==
    OneMalformed =>
        /\ ret.out.status = "ok"
        /\ ret.out.source = "synthetic"
        /\ Len(ret.out.data.forest_gdf) = NumForests * Len(regions)
        /\ Len(ret.out.data.sawit_gdf) = NumConcessions * Len(regions)
        /\ Len(ret.out.data.overlap_gdf) = NumOverlapping * Len(regions)

\* two shapefiles load and the third is rejected
C11_Witness ==
    /\ OneMalformed
    /\ ret.env["forest.shp"] = "ok"
    /\ ret.env["sawit.shp"] = "ok"
    /\ ret.env["overlap.shp"] = "unreadable"
    /\ ret.out.source = "synthetic"

\* ------------------------------------------- claims on the investigation
\* C12: right after start_investigation(alert_id, alert_data), whatever the
\* alert and the state before, investigation_mode is True, selected_alert is
\* alert_id, investigation_data has that alert_id, status ACTIVE, priority
\* HIGH, case_summary alert_data and an empty timeline, and chat_history is
\* what it was
C12_StartPostcondition ==
    [][\A s \in Sessions : \A alert \in AlertFeed :
          StartInvestigation(s, alert) =>
              LET st == session'[s]
              IN  /\ st.investigation_mode = TRUE
                  /\ st.selected_alert = alert.id
                  /\ st.investigation_data.alert_id = alert.id
                  /\ st.investigation_data.status = "ACTIVE"
                  /\ st.investigation_data.priority = "HIGH"
                  /\ st.investigation_data.case_summary = alert
                  /\ st.investigation_data.timeline = <<>>
                  /\ st.chat_history = session[s].chat_history]_vars

\* an investigation started in a session that has chatted before
C12_Witness ==
    /\ run.handler = "start"
    /\ session[run.session].investigation_mode
    /\ session[run.session].selected_alert = "ALT-FIN-2156"
    /\ session[run.session].investigation_data.case_summary.type
           = "Suspicious Transaction Pattern"
    /\ Len(session[run.session].chat_history) = 2

\* C13: in every reachable state the three investigation fields agree:
\* investigation_mode iff selected_alert is not None iff investigation_data
\* is not empty, and in investigation mode investigation_data's alert_id is
\* selected_alert
C13_FieldsAgree ==
    \A s \in Sessions :
        LET st == session[s]
        IN  /\ st.investigation_mode <=> st.selected_alert # None
            /\ st.investigation_mode <=> st.investigation_data # EmptyDict
            /\ st.investigation_mode =>
                  st.investigation_data.alert_id = st.selected_alert

\* a session back from an investigation beside one that is still in its own
C13_Witness ==
    /\ run.handler = "exit"
    /\ ~session[run.session].investigation_mode
    /\ session[run.session].selected_alert = None
    /\ \E t \in Sessions \ {run.session} :
          /\ session[t].investigation_mode
          /\ session[t].selected_alert = "ALT-GEO-0156"
          /\ Added(session[t]) = MaxAdded

\* C14: while investigation_mode is True main returns before the sidebar and
\* the pages, so between Start Investigation and the next Exit selected_alert
\* stays what it is and chat_history does not change, and whenever the sidebar
\* is rendered its Active Investigations figure is 0
C14_InvestigationShutsPages ==
    /\ [](/\ session[run.session].investigation_mode <=> run.sidebar = <<>>
          /\ run.sidebar # <<>> => run.sidebar[1] = 0)
    /\ [][\A s \in Sessions :
             session[s].investigation_mode =>
                 /\ session'[s].chat_history = session[s].chat_history
                 /\ session'[s].investigation_mode =>
                       session'[s].selected_alert = session[s].selected_alert]_vars

\* a handler of the investigation dashboard ran in a session that holds a chat
C14_Witness ==
    /\ run.handler = "add_evidence"
    /\ run.sidebar = <<>>
    /\ session[run.session].investigation_mode
    /\ Len(session[run.session].investigation_data.evidence_collected) = 5
    /\ Len(session[run.session].chat_history) = 2

\* C15: Exit Investigation runs only in investigation mode; it sets
\* investigation_mode to False, selected_alert to None and investigation_data
\* to the empty dict, and leaves chat_history as it is
C15_ExitResets ==
    [][\A s \in Sessions :
          ExitInvestigation(s) =>
              /\ session[s].investigation_mode
              /\ session'[s].investigation_mode = FALSE
              /\ session'[s].selected_alert = None
              /\ session'[s].investigation_data = EmptyDict
              /\ session'[s].chat_history = session[s].chat_history]_vars

\* an exit in a session whose chat is still there
C15_Witness ==
    /\ run.handler = "exit"
    /\ run.sidebar = <<0>>
    /\ session[run.session].investigation_data = EmptyDict
    /\ Len(session[run.session].chat_history) = 2
    /\ session[run.session].chat_history[2].content.detail = "Connection error."

\* C16 as claimed: for every alert the feed offers, start_investigation fills
\* evidence_collected and next_actions with the four-item lists of the alert's
\* kind, the satellite and permit lists for an overlap alert and the
\* structuring and network lists for a transaction alert, never empty ones
C16_ListsMatchAlertType ==
    run.handler = "start" =>
        LET d == session[run.session].investigation_data
        IN  /\ Len(d.evidence_collected) = 4
            /\ Len(d.next_actions) = 4
            /\ d.case_summary.alert_source = "geospatial" =>
                  /\ d.evidence_collected[1] = "Citra satelit menunjukkan overlap 127 ha"
                  /\ d.next_actions[1] = "Verifikasi lapangan koordinat overlap"
            /\ d.case_summary.alert_source = "financial" =>
                  /\ d.evidence_collected[1] = "Pola structuring: 12 transaksi di bawah Rp 500M"
                  /\ d.next_actions[1] = "Analisis mendalam pola transaksi"

\* C17: Add Evidence with a text appends that one entry, prefixed, at the end
\* of evidence_collected and changes nothing else of investigation_data; Add
\* Action does the same to next_actions; with an empty text neither changes
\* anything
C17_AddAppendsOne ==
    [][\A s \in Sessions : \A text \in Texts :
          LET d == session[s].investigation_data
              e == session'[s].investigation_data
              Rest(field) == \A k \in DOMAIN d \ {field} : e[k] = d[k]
          IN  /\ (run'.handler = "add_evidence" /\ AddEvidence(s, text)) =>
                    IF text = ""
                    THEN session' = session
                    ELSE /\ DOMAIN e = DOMAIN d
                         /\ Len(e.evidence_collected) = Len(d.evidence_collected) + 1
                         /\ SubSeq(e.evidence_collected, 1, Len(d.evidence_collected))
                                = d.evidence_collected
                         /\ e.evidence_collected[Len(e.evidence_collected)]
                                = "(memo) " \o text
                         /\ Rest("evidence_collected")
              /\ (run'.handler = "add_action" /\ AddAction(s, text)) =>
                    IF text = ""
                    THEN session' = session
                    ELSE /\ DOMAIN e = DOMAIN d
                         /\ Len(e.next_actions) = Len(d.next_actions) + 1
                         /\ SubSeq(e.next_actions, 1, Len(d.next_actions))
                                = d.next_actions
                         /\ e.next_actions[Len(e.next_actions)]
                                = "(target) " \o text
                         /\ Rest("next_actions")]_vars

\* an action added after the four the investigation started with
C17_Witness ==
    /\ run.handler = "add_action"
    /\ LET d == session[run.session].investigation_data
       IN  /\ Len(d.next_actions) = 5
           /\ d.next_actions[5] = "(target) catatan"
           /\ Len(d.evidence_collected) = 4

\* seq is the beginning of longer
IsPrefix(seq, longer) ==
    /\ Len(seq) <= Len(longer)
    /\ SubSeq(longer, 1, Len(seq)) = seq

\* C18: during one investigation evidence_collected and next_actions never
\* shrink or reorder, what a list held before is a prefix of what it holds
\* after, and the complete button of an action leaves investigation_data as
\* it is
C18_ListsOnlyGrow ==
    [][\A s \in Sessions :
          (session[s].investigation_mode /\ session'[s].investigation_mode) =>
              LET d == session[s].investigation_data
                  e == session'[s].investigation_data
              IN  /\ IsPrefix(d.evidence_collected, e.evidence_collected)
                  /\ IsPrefix(d.next_actions, e.next_actions)
                  /\ (run'.handler = "complete" /\ run'.session = s) => e = d]_vars

\* a complete button pressed on a list that has grown
C18_Witness ==
    /\ run.handler = "complete"
    /\ LET d == session[run.session].investigation_data
       IN  /\ Len(d.next_actions) = 5
           /\ d.next_actions[1] = "Verifikasi lapangan koordinat overlap"
           /\ d.next_actions[5] = "(target) catatan"

====
